---- MODULE Spec2Model ----
(***************************************************************************)
(* The Minesweeper knowledge-based agent of src/minesweeper.py:            *)
(* Sentence, MinesweeperAI.add_knowledge and the move selectors, together  *)
(* with the Minesweeper board that supplies the counts.                    *)
(*                                                                         *)
(* add_knowledge is modelled at the granularity of its loops: one action   *)
(* for lines 210-238 up to the first mark_mine_or_safe(), one action per   *)
(* iteration of the while loop of mark_mine_or_safe, one for line 240, one *)
(* per iteration of the while loop of lines 247-256, and the return.  pc   *)
(* is the position inside the call; while pc # "idle" only the call's own  *)
(* next step is enabled.                                                   *)
(*                                                                         *)
(* Python lists hold references: copy_knowledge and the copy made inside   *)
(* mark_mine_or_safe alias the Sentence objects of self.knowledge.  Both   *)
(* copies are therefore sequences of indices into knowledge (the list is   *)
(* only appended to while a copy is alive, so an index keeps naming the    *)
(* same object).                                                           *)
(*                                                                         *)
(* before, kb0 and seen are history variables: they record what a running  *)
(* call started from and are cleared when the call returns.                *)
(*                                                                         *)
(* sent and out belong to the specification SpecSentence, which exercises  *)
(* the methods of one Sentence object directly; the agent's actions leave  *)
(* them alone.                                                             *)
(***************************************************************************)
EXTENDS Integers, Sequences, FiniteSets, TLC

VARIABLES
    height, width,      \* MinesweeperAI.height / .width (= the board's)
    board,              \* Minesweeper.mines: the real mines
    moves_made,         \* MinesweeperAI.moves_made
    mines,              \* MinesweeperAI.mines
    safes,              \* MinesweeperAI.safes
    knowledge,          \* MinesweeperAI.knowledge: list of Sentence
    pc,                 \* position inside add_knowledge, "idle" outside
    copy_knowledge,     \* local of add_knowledge, line 246
    mark_copy,          \* local copy_knowledge of mark_mine_or_safe, line 200
    call,               \* arguments (cell, count) of the latest add_knowledge
    ret,                \* value returned by the latest make_*_move since
                        \*   the latest add_knowledge
    before,             \* history: the agent as the running call found it,
                        \*   kept when the call repeats the previous one
    kb0,                \* history: knowledge when line 246 took its copy
    seen,               \* history: every sentence value held since line 246
    sent,               \* a Sentence object handled on its own
    out                 \* the latest operation on sent and what it returned

vars == <<height, width, board, moves_made, mines, safes, knowledge,
          pc, copy_knowledge, mark_copy, call, ret, before, kb0, seen,
          sent, out>>

\* Bound of the boards explored: every height x width board of at most
\* MaxCells cells, with every placement of mines.
MaxCells == 6

\* Bound of the sentences handled on their own: any set of the cells of a
\* 1 x MaxSentenceCells board, any count from -1 to MaxSentenceCells + 1.
MaxSentenceCells == 3

\* Side of the square board of SpecAnyCount, and the largest count its
\* caller passes (a cell has at most 8 neighbours; a corner of the board has 3).
AnySide == 2
MaxCount == 4

\* Python's None.
None == <<>>

\* No make_*_move has returned since the latest add_knowledge.
NoReturn == [op |-> "none", value |-> None]

\* All cells of an h x w board, (row, col) with 0-based coordinates.
Cells(h, w) == (0 .. h - 1) \X (0 .. w - 1)

\* The elements of a list.
Range(seq) == {seq[k] : k \in DOMAIN seq}

\* list.copy() of a list of object references: the indices of the list.
Indices(seq) == [k \in DOMAIN seq |-> k]

----------------------------------------------------------------------------
\* Minesweeper (the board)

\* Minesweeper.is_mine
is_mine(b, cell) == cell \in b

\* The 3x3 block around cell, in bounds, without the cell itself.
Neighbours(h, w, cell) ==
    {c \in Cells(h, w) : /\ c # cell
                         /\ c[1] \in cell[1] - 1 .. cell[1] + 1
                         /\ c[2] \in cell[2] - 1 .. cell[2] + 1}

\* Minesweeper.nearby_mines
nearby_mines(b, h, w, cell) == Cardinality(Neighbours(h, w, cell) \cap b)

----------------------------------------------------------------------------
\* Sentence

\* Sentence.__init__
Sentence(cells, count) == [cells |-> cells, count |-> count]

\* Sentence.known_mines
known_mines(s) == IF Cardinality(s.cells) = s.count THEN s.cells ELSE {}

\* Sentence.known_safes with the test of known_mines.
known_safes_AsMines(s) == IF Cardinality(s.cells) = s.count THEN s.cells ELSE {}

\* Sentence.known_safes
known_safes(s) == IF s.count = 0 THEN s.cells ELSE {}

\* Sentence.mark_mine without line 131: the count is not lowered.
Sentence_mark_mine_KeepsCount(s, cell) == Sentence(s.cells \ {cell}, s.count)

\* Sentence.mark_mine
Sentence_mark_mine(s, cell) ==
    IF cell \in s.cells
    THEN Sentence(s.cells \ {cell}, s.count - 1)
    ELSE s

\* Sentence.mark_safe lowering the count as mark_mine does.
Sentence_mark_safe_LowersCount(s, cell) == Sentence_mark_mine(s, cell)

\* Sentence.mark_safe
Sentence_mark_safe(s, cell) == Sentence(s.cells \ {cell}, s.count)

----------------------------------------------------------------------------
\* MinesweeperAI.  An agent value is the record of the object's fields.

Self == [moves_made |-> moves_made, mines |-> mines, safes |-> safes,
         knowledge |-> knowledge]

\* MinesweeperAI.mark_mine with `self.mines = {cell}` for line 169.
MinesweeperAI_mark_mine_Forgets(ai, cell) ==
    [ai EXCEPT !.mines = {cell},
               !.knowledge = [k \in DOMAIN @ |-> Sentence_mark_mine(@[k], cell)]]

\* MinesweeperAI.mark_mine without the loop of lines 170-171.
MinesweeperAI_mark_mine_NoSentences(ai, cell) ==
    [ai EXCEPT !.mines = @ \cup {cell}]

\* MinesweeperAI.mark_mine
MinesweeperAI_mark_mine(ai, cell) ==
    [ai EXCEPT !.mines = @ \cup {cell},
               !.knowledge = [k \in DOMAIN @ |-> Sentence_mark_mine(@[k], cell)]]

\* MinesweeperAI.mark_safe without line 178.
MinesweeperAI_mark_safe_NoSafes(ai, cell) ==
    [ai EXCEPT !.knowledge = [k \in DOMAIN @ |-> Sentence_mark_safe(@[k], cell)]]

\* MinesweeperAI.mark_safe
MinesweeperAI_mark_safe(ai, cell) ==
    [ai EXCEPT !.safes = @ \cup {cell},
               !.knowledge = [k \in DOMAIN @ |-> Sentence_mark_safe(@[k], cell)]]

\* for safe_cell in <snapshot>: self.mark_safe(safe_cell)
RECURSIVE MarkSafes(_, _)
MarkSafes(ai, cells) ==
    IF cells = {} THEN ai
    ELSE LET c == CHOOSE x \in cells : TRUE
         IN  MarkSafes(MinesweeperAI_mark_safe(ai, c), cells \ {c})

\* for mine_cell in <snapshot>: self.mark_mine(mine_cell)
RECURSIVE MarkMines(_, _)
MarkMines(ai, cells) ==
    IF cells = {} THEN ai
    ELSE LET c == CHOOSE x \in cells : TRUE
         IN  MarkMines(MinesweeperAI_mark_mine(ai, c), cells \ {c})

\* Body of the while loop of mark_mine_or_safe for the popped sentence,
\* the k-th object of self.knowledge: its known safes are marked, then its
\* known mines, each read from the sentence as it is at that moment.
MarkSentence(ai, k) ==
    LET a1 == MarkSafes(ai, known_safes(ai.knowledge[k]))
    IN  MarkMines(a1, known_mines(a1.knowledge[k]))

\* list.pop() takes the last element.
Last(seq) == seq[Len(seq)]

\* A loop that reads the last element and leaves it in the list.
Pop_KeepsLast(seq) == seq

\* The list after list.pop().
Pop(seq) == SubSeq(seq, 1, Len(seq) - 1)

\* Lines 220-233 without line 230: neighbours known to be mines are left out
\* of the cells and still counted.
NewSentence_KeepsCount(ai, h, w, cell, count) ==
    Sentence({c \in Neighbours(h, w, cell) :
                  c \notin (ai.safes \cup ai.moves_made \cup ai.mines)},
             count)

\* Lines 220-233: the sentence built from the observation.
NewSentence(ai, h, w, cell, count) ==
    LET nearby == {c \in Neighbours(h, w, cell) :
                       c \notin (ai.safes \cup ai.moves_made)}
    IN  Sentence(nearby \ ai.mines,
                 count - Cardinality(nearby \cap ai.mines))

\* append without the test `sentence not in self.knowledge`.
AppendNew_Always(kb, s) == Append(kb, s)

\* `sentence not in self.knowledge` appends: list membership by __eq__.
AppendNew(kb, s) == IF s \in Range(kb) THEN kb ELSE Append(kb, s)

\* Lines 250-255 without the test of line 252.
RECURSIVE Derive_NoSubsetTest(_, _, _, _)
Derive_NoSubsetTest(kb, set1, count1, rest) ==
    IF rest = <<>> THEN kb
    ELSE LET sentence2 == kb[Head(rest)]
             s == Sentence(sentence2.cells \ set1, sentence2.count - count1)
         IN  Derive_NoSubsetTest(AppendNew(kb, s), set1, count1, Tail(rest))

\* Lines 250-255: for sentence2 in copy_knowledge, in list order.
RECURSIVE Derive(_, _, _, _)
Derive(kb, set1, count1, rest) ==
    IF rest = <<>> THEN kb
    ELSE LET sentence2 == kb[Head(rest)]
             s == Sentence(sentence2.cells \ set1, sentence2.count - count1)
         IN  Derive(IF set1 \subseteq sentence2.cells THEN AppendNew(kb, s) ELSE kb,
                    set1, count1, Tail(rest))

\* Line 240.
NonEmpty(kb) == SelectSeq(kb, LAMBDA s : Cardinality(s.cells) > 0)

----------------------------------------------------------------------------
\* Actions

SetSelf(ai) ==
    /\ moves_made' = ai.moves_made
    /\ mines' = ai.mines
    /\ safes' = ai.safes
    /\ knowledge' = ai.knowledge

\* add_knowledge(cell, count), lines 210-238 up to the entry of the loop of
\* the first mark_mine_or_safe().
add_knowledge(cell, count) ==
    /\ pc = "idle"
    /\ LET a1 == [Self EXCEPT !.moves_made = @ \cup {cell}]
           a2 == MinesweeperAI_mark_safe(a1, cell)
           sentence == NewSentence(a2, height, width, cell, count)
           a3 == [a2 EXCEPT !.knowledge = AppendNew(@, sentence)]
       IN  /\ SetSelf(a3)
           /\ mark_copy' = Indices(a3.knowledge)
    /\ pc' = "mark4"
    /\ call' = <<cell, count>>
    /\ ret' = NoReturn
    /\ before' = IF call = <<cell, count>> THEN <<Self>> ELSE <<>>
    /\ UNCHANGED <<sent, out, height, width, board, copy_knowledge, kb0, seen>>

\* One iteration of the while loop of mark_mine_or_safe (lines 201-206).
MarkStep ==
    /\ pc \in {"mark4", "mark5"}
    /\ mark_copy # <<>>
    /\ SetSelf(MarkSentence(Self, Last(mark_copy)))
    /\ mark_copy' = Pop(mark_copy)
    /\ seen' = IF pc = "mark5" THEN seen \cup Range(knowledge') ELSE seen
    /\ UNCHANGED <<sent, out, height, width, board, pc, copy_knowledge, call, ret,
                   before, kb0>>

\* Lines 240-246: the first mark_mine_or_safe() has returned; empty
\* sentences are dropped and the derivation loop gets its copy.
Prune ==
    /\ pc = "mark4"
    /\ mark_copy = <<>>
    /\ knowledge' = NonEmpty(knowledge)
    /\ copy_knowledge' = Indices(NonEmpty(knowledge))
    /\ pc' = "derive"
    /\ kb0' = knowledge'
    /\ seen' = Range(knowledge')
    /\ UNCHANGED <<sent, out, height, width, board, moves_made, mines, safes, mark_copy,
                   call, ret, before>>

\* Lines 248-256 up to the entry of the loop of mark_mine_or_safe().
DeriveStep ==
    /\ pc = "derive"
    /\ copy_knowledge # <<>>
    /\ LET sentence1 == knowledge[Last(copy_knowledge)]
           kb == Derive(knowledge, sentence1.cells, sentence1.count,
                        Pop(copy_knowledge))
       IN  /\ knowledge' = kb
           /\ mark_copy' = Indices(kb)
    /\ copy_knowledge' = Pop(copy_knowledge)
    /\ pc' = "mark5"
    /\ seen' = seen \cup Range(knowledge')
    /\ UNCHANGED <<sent, out, height, width, board, moves_made, mines, safes, call, ret,
                   before, kb0>>

\* Line 256 has returned: back to the test of line 247.
MarkDone ==
    /\ pc = "mark5"
    /\ mark_copy = <<>>
    /\ pc' = "derive"
    /\ UNCHANGED <<sent, out, height, width, board, moves_made, mines, safes, knowledge,
                   copy_knowledge, mark_copy, call, ret, before, kb0, seen>>

\* Line 247 finds copy_knowledge empty: add_knowledge returns.
Return ==
    /\ pc = "derive"
    /\ copy_knowledge = <<>>
    /\ pc' = "idle"
    /\ before' = <<>>
    /\ kb0' = <<>>
    /\ seen' = {}
    /\ UNCHANGED <<sent, out, height, width, board, moves_made, mines, safes, knowledge,
                   copy_knowledge, mark_copy, call, ret>>

\* make_safe_move with `moves = self.safes - self.mines`.
make_safe_move_IgnoresMovesMade ==
    /\ pc = "idle"
    /\ LET moves == safes \ mines
       IN  \E r \in (IF moves # {} THEN moves ELSE {None}) :
               ret' = [op |-> "make_safe_move", value |-> r]
    /\ UNCHANGED <<sent, out, height, width, board, moves_made, mines, safes, knowledge,
                   pc, copy_knowledge, mark_copy, call, before, kb0, seen>>

\* make_safe_move
make_safe_move ==
    /\ pc = "idle"
    /\ LET moves == safes \ (moves_made \cup mines)
       IN  \E r \in (IF moves # {} THEN moves ELSE {None}) :
               ret' = [op |-> "make_safe_move", value |-> r]
    /\ UNCHANGED <<sent, out, height, width, board, moves_made, mines, safes, knowledge,
                   pc, copy_knowledge, mark_copy, call, before, kb0, seen>>

\* make_random_move with `moves = all_moves - self.moves_made`.
make_random_move_IgnoresMines ==
    /\ pc = "idle"
    /\ LET all_moves == Cells(height, width)
           moves == all_moves \ moves_made
       IN  \E r \in (IF moves # {} THEN moves ELSE {None}) :
               ret' = [op |-> "make_random_move", value |-> r]
    /\ UNCHANGED <<sent, out, height, width, board, moves_made, mines, safes, knowledge,
                   pc, copy_knowledge, mark_copy, call, before, kb0, seen>>

\* make_random_move
make_random_move ==
    /\ pc = "idle"
    /\ LET all_moves == Cells(height, width)
           moves == all_moves \ (mines \cup moves_made)
       IN  \E r \in (IF moves # {} THEN moves ELSE {None}) :
               ret' = [op |-> "make_random_move", value |-> r]
    /\ UNCHANGED <<sent, out, height, width, board, moves_made, mines, safes, knowledge,
                   pc, copy_knowledge, mark_copy, call, before, kb0, seen>>

\* The caller of the contract: a cell that is not a mine, with its true count.
Observe ==
    \E cell \in Cells(height, width) :
        /\ ~is_mine(board, cell)
        /\ add_knowledge(cell, nearby_mines(board, height, width, cell))

\* MinesweeperAI.__init__
Fresh ==
    /\ moves_made = {}
    /\ mines = {}
    /\ safes = {}
    /\ knowledge = <<>>
    /\ pc = "idle"
    /\ copy_knowledge = <<>>
    /\ mark_copy = <<>>
    /\ call = None
    /\ ret = NoReturn
    /\ before = <<>>
    /\ kb0 = <<>>
    /\ seen = {}

\* No Sentence object is handled outside the agent.
NoSentence ==
    /\ sent = Sentence({}, 0)
    /\ out = [op |-> "none"]

Init ==
    /\ height \in 1 .. MaxCells
    /\ width \in 1 .. MaxCells
    /\ height * width <= MaxCells
    /\ board \in SUBSET Cells(height, width)
    /\ Fresh
    /\ NoSentence

Next ==
    \/ Observe
    \/ MarkStep
    \/ Prune
    \/ DeriveStep
    \/ MarkDone
    \/ Return
    \/ make_safe_move
    \/ make_random_move

Spec == Init /\ [][Next]_vars

\* One 3x4 board, five mines, seven cells to observe in any order.
Init3x4 ==
    /\ height = 3
    /\ width = 4
    /\ board = {<<0, 3>>, <<1, 1>>, <<1, 2>>, <<2, 0>>, <<2, 1>>}
    /\ Fresh
    /\ NoSentence

Spec3x4 == Init3x4 /\ [][Next]_vars

\* The steps of a running add_knowledge call.  The program is a single
\* thread: a call that has started keeps executing.
Step == MarkStep \/ Prune \/ DeriveStep \/ MarkDone \/ Return

FairSpec == Spec /\ WF_vars(Step)

\* The end-to-end game: a 3x3 board whose only mine is (0,0), a fresh agent,
\* add_knowledge((1,1), 1), add_knowledge((2,2), 0), and from then on only
\* cells returned by make_safe_move, each with its true count.
InitE2E ==
    /\ height = 3
    /\ width = 3
    /\ board = {<<0, 0>>}
    /\ Fresh
    /\ NoSentence

FirstMove == moves_made = {} /\ add_knowledge(<<1, 1>>, 1)

SecondMove == moves_made = {<<1, 1>>} /\ add_knowledge(<<2, 2>>, 0)

PickSafe ==
    /\ Cardinality(moves_made) >= 2
    /\ ret = NoReturn
    /\ make_safe_move

PlaySafe ==
    /\ ret.op = "make_safe_move"
    /\ ret.value # None
    /\ add_knowledge(ret.value, nearby_mines(board, height, width, ret.value))

NextE2E == FirstMove \/ SecondMove \/ PickSafe \/ PlaySafe \/ Step

SpecE2E == InitE2E /\ [][NextE2E]_vars /\ WF_vars(NextE2E)

\* A caller that does not keep the contract: each cell of a square board is
\* passed to add_knowledge at most once, with any count up to MaxCount.
InitAnyCount ==
    /\ height = AnySide
    /\ width = AnySide
    /\ board = {}
    /\ Fresh
    /\ NoSentence

ObserveAny ==
    \E cell \in Cells(height, width) \ moves_made :
        \E count \in 0 .. MaxCount :
            add_knowledge(cell, count)

NextAnyCount ==
    \/ ObserveAny
    \/ Step
    \/ make_safe_move
    \/ make_random_move

SpecAnyCount == InitAnyCount /\ [][NextAnyCount]_vars

\* One Sentence object with any cells and any count, and its four methods
\* called in any order.
InitSentence ==
    /\ height = 1
    /\ width = MaxSentenceCells
    /\ board = {}
    /\ Fresh
    /\ sent \in {Sentence(cells, count) :
                    cells \in SUBSET Cells(1, MaxSentenceCells),
                    count \in -1 .. MaxSentenceCells + 1}
    /\ out = [op |-> "none"]

agent == <<height, width, board, moves_made, mines, safes, knowledge,
           pc, copy_knowledge, mark_copy, call, ret, before, kb0, seen>>

\* sent.known_mines() and sent.known_safes()
CallKnown ==
    /\ out' = [op |-> "known", mines |-> known_mines(sent),
               safes |-> known_safes(sent)]
    /\ UNCHANGED <<sent, agent>>

\* sent.mark_mine(cell)
CallMarkMine ==
    \E cell \in Cells(height, width) :
        /\ sent' = Sentence_mark_mine(sent, cell)
        /\ out' = [op |-> "mark_mine", cell |-> cell, old |-> sent]
        /\ UNCHANGED agent

\* sent.mark_safe(cell)
CallMarkSafe ==
    \E cell \in Cells(height, width) :
        /\ sent' = Sentence_mark_safe(sent, cell)
        /\ out' = [op |-> "mark_safe", cell |-> cell, old |-> sent]
        /\ UNCHANGED agent

NextSentence == CallKnown \/ CallMarkMine \/ CallMarkSafe

SpecSentence == InitSentence /\ [][NextSentence]_vars

----------------------------------------------------------------------------
\* Properties

\* add_knowledge has been called and has returned.
Returned == pc = "idle" /\ call # None

\* C1: after every truthful add_knowledge call, every cell of mines is a
\* real mine of the board and no cell of safes is a real mine.
C1_Sound ==
    Returned => /\ mines \subseteq board
                /\ safes \cap board = {}

\* A call has returned with a mine and an unplayed safe cell deduced.
C1_Witness ==
    /\ Returned
    /\ mines # {}
    /\ safes \ moves_made # {}

\* C2: after every truthful add_knowledge call, mines and safes are disjoint.
C2_Disjoint == Returned => mines \cap safes = {}

\* A call has returned with both sets non-empty.
C2_Witness ==
    /\ Returned
    /\ mines # {}
    /\ safes # {}
    /\ Len(knowledge) > 0

\* C3: when add_knowledge returns, propagation is at a fixpoint: no sentence
\* of the knowledge base has a known mine outside mines or a known safe
\* outside safes.
C3_Fixpoint ==
    Returned =>
        \A k \in DOMAIN knowledge :
            /\ known_mines(knowledge[k]) \subseteq mines
            /\ known_safes(knowledge[k]) \subseteq safes

\* Line 247 is about to find copy_knowledge empty: the state add_knowledge
\* returns with, the history of the call still at hand.
AtReturn == pc = "derive" /\ copy_knowledge = <<>>

\* C4: for every two distinct sentences S1, S2 held when the derivation step
\* starts with cells(S1) a proper subset of cells(S2), in either list order,
\* the sentence (cells(S2) - cells(S1), count(S2) - count(S1)) has been in
\* the knowledge base at some moment of the derivation step.
C4_EveryPair ==
    AtReturn =>
        \A k1, k2 \in DOMAIN kb0 :
            (/\ k1 # k2
             /\ kb0[k1].cells \subseteq kb0[k2].cells
             /\ kb0[k2].cells \ kb0[k1].cells # {})
            => Sentence(kb0[k2].cells \ kb0[k1].cells,
                        kb0[k2].count - kb0[k1].count) \in seen

\* C5: after add_knowledge returns, no two sentences of the knowledge base
\* are equal.
C5_NoDuplicates ==
    Returned =>
        \A k1, k2 \in DOMAIN knowledge :
            k1 # k2 => knowledge[k1] # knowledge[k2]

\* C6: after add_knowledge returns, no sentence of the knowledge base has an
\* empty cell set.
C6_NoEmpty ==
    Returned =>
        \A k \in DOMAIN knowledge : knowledge[k].cells # {}

\* C8: a call that repeats the arguments of the call before it returns with
\* the knowledge base, mines and safes it started with.
C8_Idempotent ==
    (AtReturn /\ before # <<>>) =>
        /\ knowledge = before[1].knowledge
        /\ mines = before[1].mines
        /\ safes = before[1].safes

\* C7: in every state reached by truthful calls, every sentence of the
\* knowledge base has 0 <= count <= |cells|.
C7_CountInRange ==
    \A k \in DOMAIN knowledge :
        /\ 0 <= knowledge[k].count
        /\ knowledge[k].count <= Cardinality(knowledge[k].cells)

\* Inside a call that has appended a derived sentence and after a mine has
\* been marked in place, a sentence with cells left sits on the upper limit
\* count = |cells|.
C7_Witness ==
    /\ pc = "mark5"
    /\ mines # {}
    /\ Len(knowledge) > Len(kb0)
    /\ mark_copy = <<>>
    /\ \E k \in DOMAIN knowledge :
           /\ knowledge[k].cells # {}
           /\ knowledge[k].count = Cardinality(knowledge[k].cells)

\* The end of the 3x3 game: (0,0) is the only known mine and the eight
\* other cells are known safe.
E2EGoal ==
    /\ mines = {<<0, 0>>}
    /\ safes = Cells(3, 3) \ {<<0, 0>>}

\* What the 3x3 game shows in each of its states.
E2EState ==
    /\ (Returned /\ moves_made = {<<1, 1>>})
           => knowledge = <<Sentence(Cells(3, 3) \ {<<1, 1>>}, 1)>>
    /\ (Returned /\ moves_made = {<<1, 1>>, <<2, 2>>})
           => {<<1, 1>>, <<1, 2>>, <<2, 1>>} \subseteq safes
    /\ (ret.op = "make_safe_move" /\ ret.value = None) => E2EGoal

\* C9: in the 3x3 game with the single mine (0,0), the first call leaves
\* exactly the sentence of the eight other cells with count 1, the second
\* call leaves (1,1), (1,2) and (2,1) in safes, and whatever make_safe_move
\* returns the game reaches mines = {(0,0)} with the eight other cells in
\* safes, make_safe_move never returning None before that.
C9_EndToEnd == [](E2EState) /\ <>(E2EGoal)

\* The game is over and make_safe_move has nothing left to return.
C9_Witness ==
    /\ E2EGoal
    /\ Cardinality(moves_made) = 8
    /\ ret.op = "make_safe_move"
    /\ ret.value = None

\* C10: every add_knowledge call that has started returns.
C10_Terminates == (pc # "idle") ~> (pc = "idle")

\* A call is inside the marking pass that follows a derivation which added
\* a sentence.
C10_Witness ==
    /\ pc = "mark5"
    /\ mark_copy # <<>>
    /\ Len(knowledge) > Len(kb0)

\* C12: for every sentence, count = |cells| gives known_mines() = cells and
\* known_safes() empty, count = 0 gives known_safes() = cells and
\* known_mines() empty, and any other count gives both empty.
C12_Known ==
    out.op = "known" =>
        /\ sent.count = Cardinality(sent.cells)
               => (out.mines = sent.cells /\ out.safes = {})
        /\ sent.count = 0
               => (out.safes = sent.cells /\ out.mines = {})
        /\ (sent.count # Cardinality(sent.cells) /\ sent.count # 0)
               => (out.mines = {} /\ out.safes = {})

\* Both methods have answered for a sentence whose cells are all mines.
C12_Witness ==
    /\ out.op = "known"
    /\ sent.count = 2
    /\ out.mines = sent.cells
    /\ out.safes = {}

\* C13: Sentence.mark_mine and Sentence.mark_safe leave a sentence without
\* the cell as it is; with the cell they remove exactly that cell, mark_mine
\* lowering count by 1 and mark_safe keeping it.
C13_Mark ==
    out.op \in {"mark_mine", "mark_safe"} =>
        IF out.cell \notin out.old.cells
        THEN sent = out.old
        ELSE /\ sent.cells = out.old.cells \ {out.cell}
             /\ sent.count = out.old.count - (IF out.op = "mark_mine" THEN 1 ELSE 0)

\* mark_mine has removed a cell from a sentence that had it.
C13_Witness ==
    /\ out.op = "mark_mine"
    /\ out.cell \in out.old.cells
    /\ sent.cells # {}

\* C11: when add_knowledge returns, moves_made is a subset of safes and the
\* observed cell is in both; no step of the program takes a cell out of
\* safes.
C11_MovesSafe ==
    /\ [](Returned => /\ moves_made \subseteq safes
                      /\ call[1] \in moves_made
                      /\ call[1] \in safes)
    /\ [][safes \subseteq safes']_vars

\* Two calls have returned and a cell that was never observed is in safes.
C11_Witness ==
    /\ Returned
    /\ Cardinality(moves_made) >= 2
    /\ safes \ moves_made # {}

\* The candidates of make_safe_move and of make_random_move.
SafeMoves == safes \ (moves_made \cup mines)

RandomMoves == Cells(height, width) \ (mines \cup moves_made)

\* A step that is a call of make_safe_move / make_random_move.
SafeMoveCalled == pc = "idle" /\ pc' = "idle" /\ ret'.op = "make_safe_move"

RandomMoveCalled == pc = "idle" /\ pc' = "idle" /\ ret'.op = "make_random_move"

\* C14: make_safe_move returns None exactly when safes - (moves_made \cup
\* mines) is empty, otherwise a member of that set, and leaves mines, safes,
\* moves_made and knowledge as they are.
C14_SafeMove ==
    [][SafeMoveCalled =>
          /\ ret'.value = None <=> SafeMoves = {}
          /\ ret'.value # None => ret'.value \in SafeMoves
          /\ UNCHANGED <<mines, safes, moves_made, knowledge>>]_vars

\* make_safe_move has returned a cell while other safe cells were already
\* played and a mine is known.
C14_Witness ==
    /\ ret.op = "make_safe_move"
    /\ ret.value \in SafeMoves
    /\ moves_made # {}
    /\ mines # {}

\* C15: make_random_move returns None exactly when every cell of the board
\* is in mines or moves_made, otherwise a cell of the board that is in
\* neither.
C15_RandomMove ==
    [][RandomMoveCalled =>
          /\ ret'.value = None
                 <=> Cells(height, width) \subseteq (mines \cup moves_made)
          /\ ret'.value # None =>
                 /\ ret'.value \in Cells(height, width)
                 /\ ret'.value \notin mines
                 /\ ret'.value \notin moves_made]_vars

\* make_random_move has returned None on a board whose cells are all played
\* or known mines, with at least one of each.
C15_Witness ==
    /\ ret.op = "make_random_move"
    /\ ret.value = None
    /\ mines # {}
    /\ moves_made # {}

\* The sentence is true of the real board.
TrueOfBoard(s) == Cardinality(s.cells \cap board) = s.count

\* C16: after every truthful add_knowledge call, every sentence of the
\* knowledge base has exactly count real mines among its cells.
C16_TrueSentences ==
    Returned => \A k \in DOMAIN knowledge : TrueOfBoard(knowledge[k])

\* A returned call leaves three sentences or more, one of them with a real
\* mine and a real safe cell among its cells.
C16_Witness ==
    /\ Returned
    /\ Len(knowledge) >= 3
    /\ \E k \in DOMAIN knowledge :
           /\ knowledge[k].cells \cap board # {}
           /\ knowledge[k].cells \ board # {}

\* A step that enters add_knowledge.
Called == pc = "idle" /\ pc' = "mark4"

\* C17: the sentence add_knowledge(cell, count) builds has as cells the
\* neighbours of cell on the board that are in none of mines, safes and
\* moves_made, and as count the given count minus the number of neighbours
\* in mines; it is appended to the knowledge base only if no equal sentence
\* is in it.
C17_NewSentence ==
    [][Called =>
          LET N == Neighbours(height, width, call'[1])
              s == Sentence(N \ (mines' \cup safes' \cup moves_made'),
                            call'[2] - Cardinality(N \cap mines'))
              old == SubSeq(knowledge', 1, Len(knowledge))
          IN  /\ Len(knowledge') >= Len(knowledge)
              /\ IF s \in Range(old)
                 THEN knowledge' = old
                 ELSE knowledge' = Append(old, s)]_vars

\* A call has just built a sentence that leaves out a neighbour known to be
\* a mine, and appended it.
C17_Witness ==
    /\ pc = "mark4"
    /\ mark_copy = Indices(knowledge)
    /\ Neighbours(height, width, call[1]) \cap mines # {}
    /\ Last(knowledge).cells
           = Neighbours(height, width, call[1]) \ (mines \cup safes \cup moves_made)
    /\ Last(knowledge).cells # {}

\* C19: when add_knowledge returns, no sentence of the knowledge base has a
\* cell that is in mines, safes or moves_made.
C19_Undetermined ==
    Returned =>
        \A k \in DOMAIN knowledge :
            knowledge[k].cells \cap (mines \cup safes \cup moves_made) = {}

\* A returned call has marked a mine and cells of earlier sentences, and
\* still holds a sentence.
C19_Witness ==
    /\ Returned
    /\ mines # {}
    /\ Cardinality(safes) >= 2
    /\ \E k \in DOMAIN knowledge : knowledge[k].cells # {}

\* C20: no step of add_knowledge, make_safe_move or make_random_move takes a
\* cell out of mines, safes or moves_made.
C20_OnlyGrow ==
    [][/\ mines \subseteq mines'
       /\ safes \subseteq safes'
       /\ moves_made \subseteq moves_made']_vars

\* After calls of add_knowledge that found two mines and a safe cell,
\* make_safe_move has returned that cell.
C20_Witness ==
    /\ pc = "idle"
    /\ ret.op = "make_safe_move"
    /\ ret.value # None
    /\ Cardinality(mines) >= 2
    /\ Cardinality(moves_made) >= 2

\* The count of the call cannot be true: it is smaller than the number of
\* neighbours in mines, or larger than that number plus the number of
\* undetermined neighbours.
Impossible(cell, count) ==
    LET N == Neighbours(height, width, cell)
        known == Cardinality(N \cap mines)
        open == Cardinality(N \ (mines \cup safes \cup moves_made))
    IN  count < known \/ count > known + open

InRange(s) == 0 <= s.count /\ s.count <= Cardinality(s.cells)

\* C18: a call of add_knowledge with a count that cannot be true does not
\* go on with a sentence of count < 0 or count > |cells| in the knowledge
\* base.
C18_Detected ==
    [][(Called /\ Impossible(call'[1], call'[2])) =>
          \A k \in DOMAIN knowledge' : InRange(knowledge'[k])]_vars

====
